---- MODULE Spec2Model ----
(***************************************************************************)
(* Model of src/server.js: the on-demand HLS transcode orchestrator        *)
(* (ensureHls and the manifest endpoint), the segment endpoint, the        *)
(* thumbnail endpoint, the path resolution of ids and the catalog search.  *)
(*                                                                         *)
(* One action is one turn of the Node.js event loop: a request handler or  *)
(* an event callback together with the promise reactions (microtasks) it   *)
(* triggers, which run before any other callback.                          *)
(***************************************************************************)
EXTENDS Integers, Sequences, FiniteSets

\* ------------------------------------------------------------------ bounds
\* Number of distinct asset ids that are requested.
NumIds == 2
\* Number of manifest requests (each is one ensureHls call); a job is created
\* by a request, so this also bounds the number of jobs.
MaxReq == 3
\* Encode capacity.  src/server.js:21 sets 10000; the model scales it down so
\* that the gate closes within the bounded number of requests.
MAX_HLS == 1

\* Number of distinct asset ids whose thumbnail is requested.
NumThumbIds == 1
\* Number of thumbnail requests.
MaxThumbReq == 4
\* Thumbnail capacity (src/server.js:22).
MAX_THUMB == 3

Ids   == 1..NumIds
Reqs  == 1..MaxReq
Jobs  == 1..MaxReq
TReqs == 1..MaxThumbReq
TIds  == 1..NumThumbIds

\* Exit codes of the encoder seen by the 'close' handler: 0, a failure code,
\* and the negative errno 'close' carries after a failed launch (ENOENT).
ExitCodes == {0, 1}
LaunchFailCode == -2

\* ----------------------------------------------------------------- strings
\* A string is the sequence of its characters.
endsWith(s, suf) ==
  Len(s) >= Len(suf) /\ SubSeq(s, Len(s) - Len(suf) + 1, Len(s)) = suf

startsWith(s, pre) == Len(s) >= Len(pre) /\ SubSeq(s, 1, Len(pre)) = pre

includes(s, q) ==
  \E i \in 1..(Len(s) + 1) : i + Len(q) - 1 <= Len(s) /\ SubSeq(s, i, i + Len(q) - 1) = q

\* The suffix the segment endpoint accepts.
TsSuffix == <<".", "t", "s">>

\* Number of chunks the encoder writes into a segment file before it is whole.
SegLen == 2

\* The files the encoder writes next to the manifest: a segment and the
\* temporary playlist; and the names a segment request may carry.
SegFiles == {<<"0", ".", "t", "s">>, <<"m", ".", "t", "m", "p">>}
SegNames == SegFiles \cup {<<"0", "t", "s">>, <<"1", ".", "t", "s">>}

\* ------------------------------------------------------------------- state
VARIABLES
  manifest,            \* manifest[id]: fs.existsSync(<CACHE_ROOT>/id/index.m3u8)
  runningHls,          \* the encode-slot counter
  hlsJobs,             \* the active-job registry: id -> job (0: no entry)
  jobs,                \* the job promises created by ensureHls and their closures
  reqs,                \* the manifest requests (GET /api/hls/:id/index.m3u8)
  rejectionForwarded,  \* whether the framework turns a rejected async handler into a 500
  video,               \* video[id]: the source file of id exists under VIDEO_ROOT
  thumb,               \* thumb[id]: fs.existsSync(<THUMB_DIR>/id.jpg)
  runningThumb,        \* the thumbnail-slot counter
  treqs,               \* the thumbnail requests (GET /api/thumb/:id.jpg)
  lastRes,             \* the thumbnail request handled last: its id and response status
  crashed,             \* an exception escaped an event callback: the process is gone
  segs,                \* segs[id][name]: how much of <CACHE_ROOT>/id/name is written (0: no file)
  segRes,              \* the segment request handled last and its response
  arg,                 \* the argument of the function call under examination
  ret                  \* its return value

hlsVars   == <<manifest, runningHls, hlsJobs, jobs, reqs>>
thumbVars == <<video, thumb, runningThumb, treqs, lastRes, crashed>>
segVars   == <<segs, segRes>>
callVars  == <<arg, ret>>
vars == <<manifest, runningHls, hlsJobs, jobs, reqs, rejectionForwarded,
          video, thumb, runningThumb, treqs, lastRes, crashed,
          segs, segRes, arg, ret>>

NoJob == [id |-> 0, pc |-> "unused",
          spawned |-> FALSE, released |-> FALSE, waitM3U8 |-> FALSE,
          proc |-> "none", exit |-> <<>>, calls |-> <<>>]

NoReq == [id |-> 0, pc |-> "idle", job |-> 0, resp |-> 0]

NoTReq == [id |-> 0, pc |-> "idle", sent |-> 0]

\* ----------------------------------------------------------- the promise
\* resolve/reject of the job promise: every call is recorded, the first wins.
resolve(jr, v) == [jr EXCEPT !.calls = Append(@, v)]

reject(jr) == [jr EXCEPT !.calls = Append(@, "rejected")]

Outcome(jr) == IF jr.calls = <<>> THEN "pending" ELSE jr.calls[1]

\* ------------------------------------------------------------ the registry
hasJob(map, id) == map[id] # 0

\* Mutant: the job is not entered into the registry.
hlsJobsSet_skip(map, id, j) == map

hlsJobsSet(map, id, j) == [map EXCEPT ![id] = j]

\* Mutant: the finally-callback does not remove the entry.
jobFinally_keeps(map, id) == map

\* job.finally(() => hlsJobs.delete(id))
jobFinally(map, id) == [map EXCEPT ![id] = 0]

\* 🚦 runningHls >= MAX_HLS
gateFull(n) == n >= MAX_HLS

\* The id -> path resolution the manifest endpoint calls (line 309) before
\* ensureHls.  src/server.js does not define it; it is taken to return the path
\* of the id, which only reaches the arguments of ffprobe and ffmpeg.
resolveVideoPathById(id) == <<"VIDEO_ROOT", id>>

\* ------------------------------------------------- the manifest endpoint
\* What the handler does with the result of `await ensureHls(id, absInput)`.
Continue(rq, out, fwd) ==
  CASE out = "busy"     -> [rq EXCEPT !.pc = "done", !.job = 0, !.resp = 202]
    [] out = "ready"    -> [rq EXCEPT !.pc = "awaitFile", !.job = 0]
    [] out = "rejected" -> IF fwd THEN [rq EXCEPT !.pc = "done", !.resp = 500]
                                  ELSE [rq EXCEPT !.pc = "unanswered"]
    [] OTHER            -> rq

\* The reactions of a settling job: every request awaiting job j continues.
Deliver(rqs, j, out, fwd) ==
  [r \in Reqs |-> IF rqs[r].pc = "awaitJob" /\ rqs[r].job = j
                  THEN Continue(rqs[r], out, fwd) ELSE rqs[r]]

\* The end of a turn in which job j went from jr to jr2: if the promise settled
\* in this turn, its finally-callback and its waiters run.
Settles(jr, jr2) == Outcome(jr) = "pending" /\ Outcome(jr2) # "pending"

TurnEnd(j, jr2, map, rqs) ==
  /\ jobs' = [jobs EXCEPT ![j] = jr2]
  /\ hlsJobs' = IF Settles(jobs[j], jr2) THEN jobFinally(map, jr2.id) ELSE map
  /\ reqs' = IF Settles(jobs[j], jr2)
             THEN Deliver(rqs, j, Outcome(jr2), rejectionForwarded) ELSE rqs

FreeReq == CHOOSE r \in Reqs : reqs[r].pc = "idle" /\ \A q \in Reqs : reqs[q].pc = "idle" => r <= q
FreeJob == CHOOSE j \in Jobs : jobs[j].pc = "unused" /\ \A k \in Jobs : jobs[k].pc = "unused" => j <= k

\* The state after start-up: counters 0, no job, no request; the cache directory
\* may hold output of earlier runs.
HlsInit ==
  /\ runningHls = 0
  /\ hlsJobs = [i \in Ids |-> 0]
  /\ jobs = [j \in Jobs |-> NoJob]
  /\ reqs = [r \in Reqs |-> NoReq]

ThumbInit ==
  /\ runningThumb = 0
  /\ treqs = [t \in TReqs |-> NoTReq]
  /\ lastRes = [id |-> 0, status |-> 0, on |-> "none"]
  /\ video = [i \in TIds |-> TRUE]
  /\ crashed = FALSE

SegInit ==
  /\ segs = [i \in Ids |-> [n \in SegFiles |-> 0]]
  /\ segRes = [id |-> 0, name |-> <<>>, status |-> 0, body |-> 0]

NoCall ==
  /\ arg = <<>>
  /\ ret = <<>>

Init ==
  /\ HlsInit
  /\ ThumbInit
  /\ SegInit
  /\ NoCall
  /\ manifest \in [Ids -> BOOLEAN]
  /\ thumb = [i \in TIds |-> FALSE]
  /\ rejectionForwarded \in BOOLEAN

\* ------------------------------------------------------------- ensureHls
\* A request that calls ensureHls takes the next request record; a call that
\* does not attach creates the next job promise.
NewReq(id, j) == [id |-> id, pc |-> "awaitJob", job |-> j, resp |-> 0]

\* The turn of a call that created job j for id and left it as jr2:
\* hlsJobs.set(id, job); job.finally(...); return job, and then the reactions
\* of a job that the executor settled before returning.
NewJobTurn(id, jr2) ==
  /\ jobs' = [jobs EXCEPT ![FreeJob] = jr2]
  /\ hlsJobs' = IF Outcome(jr2) # "pending"
                THEN jobFinally(hlsJobsSet(hlsJobs, id, FreeJob), id)
                ELSE hlsJobsSet(hlsJobs, id, FreeJob)
  /\ reqs' = [reqs EXCEPT ![FreeReq] =
                Continue(NewReq(id, FreeJob), Outcome(jr2), rejectionForwarded)]

CanRequest == \E r \in Reqs : reqs[r].pc = "idle"

\* catch (e) { if (spawned) runningHls = Math.max(0, runningHls - 1); reject(e); }
catchRunning(spawned, n) == IF spawned THEN (IF n - 1 > 0 THEN n - 1 ELSE 0) ELSE n

\* The path ensureHls(id) takes, from the checks in their order in the code:
\*   if (hlsJobs.has(id)) return hlsJobs.get(id);
\*   if (fs.existsSync(outM3u8)) return resolve({ ready: true, outM3u8 });
\*   if (runningHls >= MAX_HLS) return resolve({ ready: false, busy: true });
\*   runningHls++; ...
ensureHlsPath_noAttach(has, exists, n) ==
  IF exists THEN "cached"
  ELSE IF gateFull(n) THEN "busy"
  ELSE "start"

ensureHlsPath_gateFirst(has, exists, n) ==
  IF has THEN "attach"
  ELSE IF gateFull(n) THEN "busy"
  ELSE IF exists THEN "cached"
  ELSE "start"

ensureHlsPath(has, exists, n) ==
  IF has THEN "attach"
  ELSE IF exists THEN "cached"
  ELSE IF gateFull(n) THEN "busy"
  ELSE "start"

PathOf(id) == ensureHlsPath(hasJob(hlsJobs, id), manifest[id], runningHls)

\* if (hlsJobs.has(id)) return hlsJobs.get(id);
RequestAttach(id) ==
  /\ CanRequest
  /\ PathOf(id) = "attach"
  /\ reqs' = [reqs EXCEPT ![FreeReq] =
                Continue(NewReq(id, hlsJobs[id]), Outcome(jobs[hlsJobs[id]]),
                         rejectionForwarded)]
  /\ UNCHANGED <<manifest, runningHls, hlsJobs, jobs, rejectionForwarded, thumbVars, segVars, callVars>>

\* if (fs.existsSync(outM3u8)) return resolve({ ready: true, outM3u8 });
RequestCacheHit(id) ==
  /\ CanRequest
  /\ PathOf(id) = "cached"
  /\ NewJobTurn(id, resolve([NoJob EXCEPT !.id = id, !.pc = "returned"], "ready"))
  /\ UNCHANGED <<manifest, runningHls, rejectionForwarded, thumbVars, segVars, callVars>>

\* if (runningHls >= MAX_HLS) return resolve({ ready: false, busy: true });
RequestBusy(id) ==
  /\ CanRequest
  /\ PathOf(id) = "busy"
  /\ NewJobTurn(id, resolve([NoJob EXCEPT !.id = id, !.pc = "returned"], "busy"))
  /\ UNCHANGED <<manifest, runningHls, rejectionForwarded, thumbVars, segVars, callVars>>

\* runningHls++; the executor then waits for probeCodec(absInput, "v")
RequestStart(id) ==
  /\ CanRequest
  /\ PathOf(id) = "start"
  /\ runningHls' = runningHls + 1
  /\ NewJobTurn(id, [NoJob EXCEPT !.id = id, !.pc = "probeV"])
  /\ UNCHANGED <<manifest, rejectionForwarded, thumbVars, segVars, callVars>>

\* runningHls++; spawn("ffprobe") throws inside probeCodec: the catch block runs
\* with spawned = false.
RequestStartThrows(id) ==
  /\ CanRequest
  /\ PathOf(id) = "start"
  /\ runningHls' = catchRunning(FALSE, runningHls + 1)
  /\ NewJobTurn(id, reject([NoJob EXCEPT !.id = id, !.pc = "caughtProbe"]))
  /\ UNCHANGED <<manifest, rejectionForwarded, thumbVars, segVars, callVars>>

\* -------------------------------------------------- the executor's awaits
\* probeCodec(absInput, "v") resolved; probeCodec(absInput, "a") starts.
ProbeVDone(j) ==
  /\ jobs[j].pc = "probeV"
  /\ jobs' = [jobs EXCEPT ![j].pc = "probeA"]
  /\ UNCHANGED <<manifest, runningHls, hlsJobs, reqs, rejectionForwarded, thumbVars, segVars, callVars>>

\* probeCodec(absInput, "a") resolved; spawn("ffmpeg") returns a child whose
\* launch succeeds (launched) or fails asynchronously; the poll and the
\* 'close' and 'error' handlers are installed.
SpawnEncoder(j, launched) ==
  /\ jobs[j].pc = "probeA"
  /\ jobs' = [jobs EXCEPT ![j].pc = "spawned",
                          ![j].spawned = TRUE,
                          ![j].waitM3U8 = TRUE,
                          ![j].proc = IF launched THEN "running" ELSE "failed"]
  /\ UNCHANGED <<manifest, runningHls, hlsJobs, reqs, rejectionForwarded, thumbVars, segVars, callVars>>

\* The next spawn of the executor throws (spawn("ffprobe") of the audio probe
\* after the video probe, or spawn("ffmpeg") after the audio probe): the catch
\* block runs with spawned = false.
\* Where the executor was when the exception reached its catch block: at the
\* spawn of a probe, or at the spawn of the encoder.
caughtAt(pc) == IF pc = "probeV" THEN "caughtProbe" ELSE "caught"

ExecutorThrows(j) ==
  /\ jobs[j].pc \in {"probeV", "probeA"}
  /\ runningHls' = catchRunning(jobs[j].spawned, runningHls)
  /\ TurnEnd(j, reject([jobs[j] EXCEPT !.pc = caughtAt(jobs[j].pc)]), hlsJobs, reqs)
  /\ UNCHANGED <<manifest, rejectionForwarded, thumbVars, segVars, callVars>>

\* ------------------------------------------------------------ the encoder
\* ffmpeg writes index.m3u8.
EncoderWritesManifest(j) ==
  /\ jobs[j].proc = "running"
  /\ ~manifest[jobs[j].id]
  /\ manifest' = [manifest EXCEPT ![jobs[j].id] = TRUE]
  /\ UNCHANGED <<runningHls, hlsJobs, jobs, reqs, rejectionForwarded, thumbVars, segVars, callVars>>

\* Mutant: the poll does not look for the file.
pollFires_noExists(released, exists) == ~released

\* if (!released && fs.existsSync(outM3u8))
pollFires(released, exists) == ~released /\ exists

\* A tick of the waitM3U8 interval whose condition holds.
PollTick(j) ==
  /\ jobs[j].waitM3U8
  /\ pollFires(jobs[j].released, manifest[jobs[j].id])
  /\ TurnEnd(j, resolve([jobs[j] EXCEPT !.released = TRUE, !.waitM3U8 = FALSE], "ready"),
             hlsJobs, reqs)
  /\ UNCHANGED <<manifest, runningHls, rejectionForwarded, thumbVars, segVars, callVars>>

\* The body of the 'close' handler after the decrement:
\*   if (!released && fs.existsSync(outM3u8)) { released = true; resolve(...) }
\*   if (code !== 0 && !released) reject(...)
closeReleased(released, exists) == released \/ exists

closeCalls_noReleasedGuard(released, exists, code) ==
  (IF ~released /\ exists THEN <<"ready">> ELSE <<>>)
  \o (IF code # 0 THEN <<"rejected">> ELSE <<>>)

closeCalls(released, exists, code) ==
  (IF ~released /\ exists THEN <<"ready">> ELSE <<>>)
  \o (IF code # 0 /\ ~closeReleased(released, exists) THEN <<"rejected">> ELSE <<>>)

\* p.on("close", ...): runningHls--, clearInterval, then the body above.
onClose(jr, exists, code) ==
  [jr EXCEPT !.proc = "closed",
             !.exit = <<code>>,
             !.waitM3U8 = FALSE,
             !.released = closeReleased(jr.released, exists),
             !.calls = @ \o closeCalls(jr.released, exists, code)]

\* The encoder exits with code, or, after a failed launch, 'close' follows
\* 'error' with the negative errno as code.
EncoderClose(j, code) ==
  /\ \/ jobs[j].proc = "running" /\ code \in ExitCodes
     \/ jobs[j].proc = "errored" /\ code = LaunchFailCode
  /\ runningHls' = runningHls - 1
  /\ TurnEnd(j, onClose(jobs[j], manifest[jobs[j].id], code), hlsJobs, reqs)
  /\ UNCHANGED <<manifest, rejectionForwarded, thumbVars, segVars, callVars>>

\* if (!released) reject(err)
errorCalls(released) == IF ~released THEN <<"rejected">> ELSE <<>>

\* p.on("error", ...): runningHls--, clearInterval, reject unless released.
onError(jr) ==
  [jr EXCEPT !.proc = "errored",
             !.waitM3U8 = FALSE,
             !.calls = @ \o errorCalls(jr.released)]

\* The encoder could not be launched: 'error' is emitted.
EncoderError(j) ==
  /\ jobs[j].proc = "failed"
  /\ runningHls' = runningHls - 1
  /\ TurnEnd(j, onError(jobs[j]), hlsJobs, reqs)
  /\ UNCHANGED <<manifest, rejectionForwarded, thumbVars, segVars, callVars>>

\* ---------------------------------------- the manifest endpoint, step 2-3
\* A tick of the endpoint's 100 ms interval that finds index.m3u8: the
\* manifest is streamed back.
WaitFileTick(r) ==
  /\ reqs[r].pc = "awaitFile"
  /\ manifest[reqs[r].id]
  /\ reqs' = [reqs EXCEPT ![r].pc = "done", ![r].resp = 200]
  /\ UNCHANGED <<manifest, runningHls, hlsJobs, jobs, rejectionForwarded, thumbVars, segVars, callVars>>

Next ==
  \/ \E id \in Ids : RequestAttach(id)
  \/ \E id \in Ids : RequestCacheHit(id)
  \/ \E id \in Ids : RequestBusy(id)
  \/ \E id \in Ids : RequestStart(id)
  \/ \E id \in Ids : RequestStartThrows(id)
  \/ \E j \in Jobs : ProbeVDone(j)
  \/ \E j \in Jobs, launched \in BOOLEAN : SpawnEncoder(j, launched)
  \/ \E j \in Jobs : ExecutorThrows(j)
  \/ \E j \in Jobs : EncoderWritesManifest(j)
  \/ \E j \in Jobs : PollTick(j)
  \/ \E j \in Jobs, code \in ExitCodes \cup {LaunchFailCode} : EncoderClose(j, code)
  \/ \E j \in Jobs : EncoderError(j)
  \/ \E r \in Reqs : WaitFileTick(r)

Spec == Init /\ [][Next]_vars

\* ===================================================== GET /api/thumb/:id.jpg
\* absFromId(id) for a well-formed id: the path if the source file exists.
absFromId(vid, id) == vid[id]

\* if (runningThumb >= MAX_THUMB) return res.status(202).end();
thumbGateFull(n) == n >= MAX_THUMB

FreeTReq == CHOOSE t \in TReqs : treqs[t].pc = "idle"
                                  /\ \A q \in TReqs : treqs[q].pc = "idle" => t <= q

CanThumb == ~crashed /\ \E t \in TReqs : treqs[t].pc = "idle"

\* The path the handler takes, from the checks in their order in the code:
\*   if (!abs) return res.status(404).send("not found");
\*   if (fs.existsSync(outJpg)) { ...; return fs.createReadStream(outJpg).pipe(res); }
\*   if (runningThumb >= MAX_THUMB) return res.status(202).end();
\*   runningThumb++; ...
thumbPath_noCache(abs, exists, n) ==
  IF ~abs THEN "notfound"
  ELSE IF thumbGateFull(n) THEN "busy"
  ELSE "start"

thumbPath(abs, exists, n) ==
  IF ~abs THEN "notfound"
  ELSE IF exists THEN "cached"
  ELSE IF thumbGateFull(n) THEN "busy"
  ELSE "start"

ThumbPathOf(id) == thumbPath(absFromId(video, id), thumb[id], runningThumb)

\* A request that the handler answered at once; the response is in lastRes.
Answered == [id |-> 0, pc |-> "done", sent |-> 1]

\* The response status sent for a request of id, and the callback that sent it.
Res(id, status, on) == [id |-> id, status |-> status, on |-> on]

\* if (!abs) return res.status(404).send("not found");
ThumbNotFound(id) ==
  /\ CanThumb
  /\ ThumbPathOf(id) = "notfound"
  /\ treqs' = [treqs EXCEPT ![FreeTReq] = Answered]
  /\ lastRes' = Res(id, 404, "request")
  /\ UNCHANGED <<hlsVars, segVars, callVars, rejectionForwarded, video, thumb, runningThumb, crashed>>

\* if (fs.existsSync(outJpg)) { ...; return fs.createReadStream(outJpg).pipe(res); }
ThumbCached(id) ==
  /\ CanThumb
  /\ ThumbPathOf(id) = "cached"
  /\ treqs' = [treqs EXCEPT ![FreeTReq] = Answered]
  /\ lastRes' = Res(id, 200, "request")
  /\ UNCHANGED <<hlsVars, segVars, callVars, rejectionForwarded, video, thumb, runningThumb, crashed>>

ThumbBusy(id) ==
  /\ CanThumb
  /\ ThumbPathOf(id) = "busy"
  /\ treqs' = [treqs EXCEPT ![FreeTReq] = Answered]
  /\ lastRes' = Res(id, 202, "request")
  /\ UNCHANGED <<hlsVars, segVars, callVars, rejectionForwarded, video, thumb, runningThumb, crashed>>

\* runningThumb++; the handler then waits for the duration probe (ffprobe).  A
\* spawn("ffprobe") that throws rejects the awaited promise, which the
\* try/catch around it swallows: the handler goes on as after a failed probe.
ThumbStart(id) ==
  /\ CanThumb
  /\ ThumbPathOf(id) = "start"
  /\ runningThumb' = runningThumb + 1
  /\ treqs' = [treqs EXCEPT ![FreeTReq] = [id |-> id, pc |-> "probing", sent |-> 0]]
  /\ lastRes' = Res(id, 0, "request")
  /\ UNCHANGED <<hlsVars, segVars, callVars, rejectionForwarded, video, thumb, crashed>>

\* The probe is over; spawn("ffmpeg") returns a child whose launch succeeds
\* (launched) or fails asynchronously; 'close' and 'error' are installed.
ThumbSpawn(t, launched) ==
  /\ ~crashed
  /\ treqs[t].pc = "probing"
  /\ treqs' = [treqs EXCEPT ![t].pc = IF launched THEN "running" ELSE "failed"]
  /\ UNCHANGED <<hlsVars, segVars, callVars, rejectionForwarded, video, thumb, runningThumb, lastRes, crashed>>

\* The probe is over and spawn("ffmpeg") throws: the async handler rejects with
\* no handler installed and the slot still taken.
ThumbSpawnThrows(t) ==
  /\ ~crashed
  /\ treqs[t].pc = "probing"
  /\ treqs' = [treqs EXCEPT ![t] =
                 IF rejectionForwarded
                 THEN [id |-> 0, pc |-> "done", sent |-> 1]
                 ELSE [id |-> 0, pc |-> "unanswered", sent |-> 0]]
  /\ lastRes' = IF rejectionForwarded THEN Res(treqs[t].id, 500, "framework") ELSE lastRes
  /\ UNCHANGED <<hlsVars, segVars, callVars, rejectionForwarded, video, thumb, runningThumb, crashed>>

\* ffmpeg writes <id>.jpg.
ThumbWritten(t) ==
  /\ ~crashed
  /\ treqs[t].pc = "running"
  /\ ~thumb[treqs[t].id]
  /\ thumb' = [thumb EXCEPT ![treqs[t].id] = TRUE]
  /\ UNCHANGED <<hlsVars, segVars, callVars, rejectionForwarded, video, runningThumb, treqs, lastRes, crashed>>

\* if (code === 0 && fs.existsSync(outJpg)) stream the image, else 500
closeStatus(code, exists) == IF code = 0 /\ exists THEN 200 ELSE 500

\* A response on res: the first one is sent; a later one throws
\* ERR_HTTP_HEADERS_SENT out of the event callback.
respond(tr) == [tr EXCEPT !.sent = @ + 1]

\* p.on("close", ...): runningThumb--, then one response.  After a failed
\* launch 'close' follows 'error', with the negative errno as code.
ThumbClose(t, code) ==
  /\ ~crashed
  /\ \/ treqs[t].pc = "running" /\ code \in ExitCodes
     \/ treqs[t].pc = "errored" /\ code = LaunchFailCode
  /\ runningThumb' = runningThumb - 1
  /\ treqs' = [treqs EXCEPT ![t] = [respond(@) EXCEPT !.pc = "closed", !.id = 0]]
  /\ lastRes' = IF treqs[t].sent = 0
                THEN Res(treqs[t].id, closeStatus(code, thumb[treqs[t].id]), "close")
                ELSE lastRes
  /\ crashed' = (treqs[t].sent > 0)
  /\ UNCHANGED <<hlsVars, segVars, callVars, rejectionForwarded, video, thumb>>

\* p.on("error", ...): runningThumb--, then a 500.
ThumbError(t) ==
  /\ ~crashed
  /\ treqs[t].pc = "failed"
  /\ runningThumb' = runningThumb - 1
  /\ treqs' = [treqs EXCEPT ![t] = [respond(@) EXCEPT !.pc = "errored"]]
  /\ lastRes' = IF treqs[t].sent = 0 THEN Res(treqs[t].id, 500, "error") ELSE lastRes
  /\ crashed' = (treqs[t].sent > 0)
  /\ UNCHANGED <<hlsVars, segVars, callVars, rejectionForwarded, video, thumb>>

\* The source file of id is removed from the library.
VideoRemoved(id) ==
  /\ ~crashed
  /\ video[id]
  /\ video' = [video EXCEPT ![id] = FALSE]
  /\ UNCHANGED <<hlsVars, segVars, callVars, rejectionForwarded, thumb, runningThumb, treqs, lastRes, crashed>>

InitThumb ==
  /\ HlsInit
  /\ ThumbInit
  /\ SegInit
  /\ NoCall
  /\ manifest = [i \in Ids |-> FALSE]
  /\ thumb \in [TIds -> BOOLEAN]
  /\ rejectionForwarded \in BOOLEAN

NextThumb ==
  \/ \E id \in TIds : ThumbNotFound(id)
  \/ \E id \in TIds : ThumbCached(id)
  \/ \E id \in TIds : ThumbBusy(id)
  \/ \E id \in TIds : ThumbStart(id)
  \/ \E t \in TReqs, launched \in BOOLEAN : ThumbSpawn(t, launched)
  \/ \E t \in TReqs : ThumbSpawnThrows(t)
  \/ \E t \in TReqs : ThumbWritten(t)
  \/ \E t \in TReqs, code \in ExitCodes \cup {LaunchFailCode} : ThumbClose(t, code)
  \/ \E t \in TReqs : ThumbError(t)
  \/ \E id \in TIds : VideoRemoved(id)

SpecThumb == InitThumb /\ [][NextThumb]_vars

\* ================================================== GET /api/hls/:id/:seg
\* fs.existsSync / the bytes of path.join(CACHE_ROOT, id, seg): the number of
\* chunks written so far, 0 when there is no such file.
fileLen(files, id, name) == IF name \in SegFiles THEN files[id][name] ELSE 0

\* Mutant: the handler without the suffix test.
segRoute_noSuffix(name, len) == IF len = 0 THEN "notfound" ELSE "stream"

\* The handler's two early returns and its fall-through to the stream.
segRoute(name, len) ==
  IF ~endsWith(name, TsSuffix) THEN "notfound"
  ELSE IF len = 0 THEN "notfound"
  ELSE "stream"

\* The response: 404 and no body, or 200 and what createReadStream reads.
segResponse(id, name, len) ==
  IF segRoute(name, len) = "stream"
  THEN [id |-> id, name |-> name, status |-> 200, body |-> len]
  ELSE [id |-> id, name |-> name, status |-> 404, body |-> 0]

\* GET /api/hls/:id/:seg
SegmentRequest(id, name) ==
  /\ segRes' = segResponse(id, name, fileLen(segs, id, name))
  /\ UNCHANGED <<hlsVars, segs, callVars, rejectionForwarded, thumbVars>>

\* The running encoder of job j appends a chunk to one of its output files.
EncoderWritesSegment(j, name) ==
  /\ jobs[j].proc = "running"
  /\ segs[jobs[j].id][name] < SegLen
  /\ segs' = [segs EXCEPT ![jobs[j].id][name] = @ + 1]
  /\ UNCHANGED <<hlsVars, segRes, callVars, rejectionForwarded, thumbVars>>

\* The first manifest request of the run.
FirstRequestStart(id) ==
  /\ \A r \in Reqs : reqs[r].pc = "idle"
  /\ RequestStart(id)

\* One manifest request starts an encoder; segment requests arrive at any time.
NextSeg ==
  \/ \E id \in Ids : FirstRequestStart(id)
  \/ \E j \in Jobs : ProbeVDone(j)
  \/ \E j \in Jobs, launched \in BOOLEAN : SpawnEncoder(j, launched)
  \/ \E j \in Jobs : EncoderWritesManifest(j)
  \/ \E j \in Jobs : PollTick(j)
  \/ \E j \in Jobs, code \in ExitCodes \cup {LaunchFailCode} : EncoderClose(j, code)
  \/ \E j \in Jobs : EncoderError(j)
  \/ \E r \in Reqs : WaitFileTick(r)
  \/ \E j \in Jobs, name \in SegFiles : EncoderWritesSegment(j, name)
  \/ \E id \in Ids, name \in SegNames : SegmentRequest(id, name)

SpecSeg == Init /\ [][NextSeg]_vars


\* ============================================= safeAbsFromRel and absFromId
\* Longest decoded relative path examined.
MaxRelLen == 5

\* The characters of a decoded path: the separator, the dot, two name
\* characters and the backslash.
PathChars == {"/", ".", "v", "w", "\\"}

\* VIDEO_ROOT, an absolute normalised path (line 9).
VIDEO_ROOT == <<"/", "v">>

\* `null`; every path path.resolve returns is non-empty.
Null == <<>>

Rels == UNION {[1..n -> PathChars] : n \in 0..MaxRelLen}

\* rel.replaceAll(a, b) for single characters.
replaceAll(s, a, b) == [i \in 1..Len(s) |-> IF s[i] = a THEN b ELSE s[i]]

\* s.split("/")
RECURSIVE splitPath(_, _, _, _)
splitPath(s, i, cur, acc) ==
  IF i > Len(s) THEN Append(acc, cur)
  ELSE IF s[i] = "/" THEN splitPath(s, i + 1, <<>>, Append(acc, cur))
  ELSE splitPath(s, i + 1, Append(cur, s[i]), acc)

\* Normalisation of a segment list: "" and "." are dropped, ".." removes the
\* segment before it (and is dropped at the file-system root).
RECURSIVE normalize(_, _, _)
normalize(segsIn, i, stack) ==
  IF i > Len(segsIn) THEN stack
  ELSE IF segsIn[i] = <<>> \/ segsIn[i] = <<".">> THEN normalize(segsIn, i + 1, stack)
  ELSE IF segsIn[i] = <<".", ".">>
       THEN normalize(segsIn, i + 1,
                      IF stack = <<>> THEN stack ELSE SubSeq(stack, 1, Len(stack) - 1))
  ELSE normalize(segsIn, i + 1, Append(stack, segsIn[i]))

RECURSIVE joinPath(_)
joinPath(stack) ==
  IF stack = <<>> THEN <<>> ELSE <<"/">> \o stack[1] \o joinPath(Tail(stack))

\* path.resolve(root, rel) for an absolute root: an absolute rel replaces the
\* root; the result is normalised and has no trailing separator.
pathResolve(root, rel) ==
  LET from == IF startsWith(rel, <<"/">>) THEN rel ELSE root \o <<"/">> \o rel
      norm == normalize(splitPath(from, 1, <<>>, <<>>), 1, <<>>)
  IN IF norm = <<>> THEN <<"/">> ELSE joinPath(norm)

safeAbsFromRel(rel) ==
  LET safeRel == replaceAll(rel, "\\", "/")
      abs == pathResolve(VIDEO_ROOT, safeRel)
  IN IF ~startsWith(abs, VIDEO_ROOT) THEN Null ELSE abs

\* absFromId after idToRelPath(id) returned rel; exists: fs.existsSync(abs).
absFromRel(rel, exists) ==
  IF rel = <<>> THEN Null
  ELSE LET abs == pathResolve(VIDEO_ROOT, replaceAll(rel, "\\", "/"))
       IN IF ~startsWith(abs, VIDEO_ROOT) THEN Null
          ELSE IF exists THEN abs ELSE Null

PathArgs ==
  [fn : {"safeAbsFromRel"}, rel : Rels] \cup [fn : {"absFromId"}, rel : Rels, exists : BOOLEAN]

SafeAbsFromRelCall ==
  /\ ret = <<>>
  /\ arg.fn = "safeAbsFromRel"
  /\ ret' = <<safeAbsFromRel(arg.rel)>>
  /\ UNCHANGED <<hlsVars, segVars, arg, rejectionForwarded, thumbVars>>

AbsFromIdCall ==
  /\ ret = <<>>
  /\ arg.fn = "absFromId"
  /\ ret' = <<absFromRel(arg.rel, arg.exists)>>
  /\ UNCHANGED <<hlsVars, segVars, arg, rejectionForwarded, thumbVars>>

\* The state in which a call with the argument arg is about to be made.
InitCall(args) ==
  /\ HlsInit
  /\ ThumbInit
  /\ SegInit
  /\ manifest = [i \in Ids |-> FALSE]
  /\ thumb = [i \in TIds |-> FALSE]
  /\ rejectionForwarded = FALSE
  /\ arg \in args
  /\ ret = <<>>

InitPath == InitCall(PathArgs)

NextPath == SafeAbsFromRelCall \/ AbsFromIdCall

SpecPath == InitPath /\ [][NextPath]_vars


\* ======================================================== GET /api/videos
\* Largest catalog and longest query examined.
MaxAssets == 3
MaxQueryLen == 2
\* The cut of the result list.  src/server.js:101 cuts at 300; the model scales
\* the cut down so that catalogs longer than it occur.
ResultCap == 2

min(a, b) == IF a <= b THEN a ELSE b

\* String.prototype.toLowerCase on the letters that occur.
lowerChar(c) == IF c = "A" THEN "a" ELSE c

toLowerCase(s) == [i \in 1..Len(s) |-> lowerChar(s[i])]

\* String.prototype.trim
RECURSIVE trimStart(_)
trimStart(s) == IF s # <<>> /\ Head(s) = " " THEN trimStart(Tail(s)) ELSE s

RECURSIVE trimEnd(_)
trimEnd(s) ==
  IF s # <<>> /\ s[Len(s)] = " " THEN trimEnd(SubSeq(s, 1, Len(s) - 1)) ELSE s

trim(s) == trimEnd(trimStart(s))

\* The files walk(VIDEO_ROOT) can find: a one-letter base name with a video
\* extension, in the root or in a one-letter directory.
NameChars == {"a", "A", "b"}
VideoExt == <<".", "m", "p", "4">>
FileNames == {<<c>> \o VideoExt : c \in NameChars}

\* The index entry of a file: { name: path.basename(abs), relPath: rel }.
Assets ==
  {[name |-> n, relPath |-> n] : n \in FileNames} \cup
  {[name |-> n, relPath |-> <<d, "/">> \o n] : n \in FileNames, d \in NameChars}

\* The list buildIndexIfNeeded returns for a set of files, in the order of the walk.
RECURSIVE listOf(_)
listOf(S) ==
  IF S = {} THEN <<>>
  ELSE LET a == CHOOSE x \in S : TRUE IN <<a>> \o listOf(S \ {a})

Catalogs ==
  {listOf(S) : S \in {T \in SUBSET Assets : Cardinality(T) <= MaxAssets}}

Queries == UNION {[1..n -> NameChars \cup {" "}] : n \in 0..MaxQueryLen}

\* Mutant: the comparison without lower-casing the entry.
matchesQuery_caseSensitive(v, q) == includes(v.name \o <<" ">> \o v.relPath, q)

\* (v.name + " " + v.relPath).toLowerCase().includes(q)
matchesQuery(v, q) == includes(toLowerCase(v.name \o <<" ">> \o v.relPath), q)

\* list.filter(v => ...)
RECURSIVE filterList(_, _)
filterList(list, q) ==
  IF list = <<>> THEN <<>>
  ELSE (IF matchesQuery(Head(list), q) THEN <<Head(list)>> ELSE <<>>)
       \o filterList(Tail(list), q)

\* results.slice(0, n)
slice0(list, n) == SubSeq(list, 1, min(Len(list), n))

\* The handler: q = String(req.query.q || "").trim().toLowerCase(); ...
searchVideos(list, query) ==
  LET q == toLowerCase(trim(query))
      results == IF q # <<>> THEN filterList(list, q) ELSE list
  IN slice0(results, ResultCap)

SearchArgs == [fn : {"search"}, list : Catalogs, q : Queries]

SearchCall ==
  /\ ret = <<>>
  /\ arg.fn = "search"
  /\ ret' = <<searchVideos(arg.list, arg.q)>>
  /\ UNCHANGED <<hlsVars, segVars, arg, rejectionForwarded, thumbVars>>

InitSearch == InitCall(SearchArgs)

NextSearch == SearchCall

SpecSearch == InitSearch /\ [][NextSearch]_vars


\* ============================== the capture time of GET /api/thumb/:id.jpg
\* Durations are counted in tenths of a second; the longest of the dense range
\* examined is 1200 s.
MaxDurTenths == 12000
\* `dur > 30` (line 454), in seconds.
MinDuration == 30

\* What parseFloat(out) or the 'error' handler hands to the computation: NaN,
\* an infinity, or a number (negative ones included).
Durations ==
  [kind : {"NaN", "Infinity"}, tenths : {0}] \cup
  [kind : {"num"}, tenths : (-10..MaxDurTenths) \cup {359990, 360000, 372610, 3599990, 3600000}]

\* String(n) for a natural number n.
Digit(d) == <<"0", "1", "2", "3", "4", "5", "6", "7", "8", "9">>[d + 1]

RECURSIVE toDigits(_)
toDigits(n) == IF n < 10 THEN <<Digit(n)>> ELSE toDigits(n \div 10) \o <<Digit(n % 10)>>

\* s.padStart(n, c)
RECURSIVE padStart(_, _, _)
padStart(s, n, c) == IF Len(s) >= n THEN s ELSE padStart(<<c>> \o s, n, c)

\* Mutant: the tenth of the duration rounded to the nearest second.
captureSecond_round(tenths) == (tenths + 50) \div 100

\* Math.floor(dur * 0.1)
captureSecond(tenths) == tenths \div 100

\* `${hh}:${mm}:${ss2}`
formatHMS(t) ==
  padStart(toDigits(t \div 3600), 2, "0") \o <<":">> \o
  padStart(toDigits((t % 3600) \div 60), 2, "0") \o <<":">> \o
  padStart(toDigits(t % 60), 2, "0")

\* let ss = "00:00:03"
FallbackSeek == <<"0", "0", ":", "0", "0", ":", "0", "3">>

\* Lines 438-461: the value of ss passed to ffmpeg -ss.
seekTime(dur) ==
  IF dur.kind = "num" /\ dur.tenths > MinDuration * 10
  THEN formatHMS(captureSecond(dur.tenths))
  ELSE FallbackSeek

SeekArgs == [fn : {"seek"}, dur : Durations]

SeekCall ==
  /\ ret = <<>>
  /\ arg.fn = "seek"
  /\ ret' = <<seekTime(arg.dur)>>
  /\ UNCHANGED <<hlsVars, segVars, arg, rejectionForwarded, thumbVars>>

InitSeek == InitCall(SeekArgs)

NextSeek == SeekCall

SpecSeek == InitSeek /\ [][NextSeek]_vars


\* ================================================================== claims
EncoderRunning(j) == jobs[j].proc = "running"

\* A job that holds or is about to hold an encoder: probing, or spawned with
\* the child not yet gone.
Active(j) == jobs[j].pc \in {"probeV", "probeA"} \/ jobs[j].proc \in {"running", "failed"}

Range(seq) == {seq[i] : i \in DOMAIN seq}

\* A request arrives in this step and takes record r.
ReqArrives(r) == reqs[r].pc = "idle" /\ reqs'[r].pc # "idle"

\* No job starts probing or encoding in this step.
NoNewProcess ==
  \A j \in Jobs : jobs'[j] = jobs[j] \/ (jobs[j].pc = "unused" /\ jobs'[j].pc = "returned")

\* C1: single-flight.  For every id at most one job is probing or has an
\* encoder that has not exited, so at most one encoder per id runs at any time
\* and a call made while a job is outstanding spawns no second one.
C1_SingleFlight ==
  \A id \in Ids : Cardinality({j \in Jobs : jobs[j].id = id /\ Active(j)}) <= 1

\* Two requests wait on the same job while its encoder runs.
C1_Witness ==
  \E r1, r2 \in Reqs :
    /\ r1 # r2
    /\ reqs[r1].pc = "awaitJob" /\ reqs[r2].pc = "awaitJob"
    /\ reqs[r1].job = reqs[r2].job
    /\ EncoderRunning(reqs[r1].job)

\* C2 (as claimed): the number of encoders running at the same time never
\* exceeds the capacity MAX_HLS.
C2_EncodersWithinCapacity ==
  Cardinality({j \in Jobs : EncoderRunning(j)}) <= MAX_HLS

\* C3 (as claimed): 0 <= runningHls <= MAX_HLS in every reachable state.
C3_RunningHlsInRange == 0 <= runningHls /\ runningHls <= MAX_HLS

\* C4: an ensureHls(id) call made while the manifest of id exists leaves
\* runningHls unchanged and starts no probe or encoder; it resolves ready at once
\* or attaches to the job whose encoder wrote the manifest, and a request that
\* waits on a job whose manifest exists is never answered anything but ready.
C4_CacheHitFrame ==
  [][ /\ \A r \in Reqs :
           (ReqArrives(r) /\ manifest[reqs'[r].id]) =>
             /\ runningHls' = runningHls
             /\ NoNewProcess
             /\ \/ reqs'[r].pc = "awaitFile"
                \/ reqs'[r].pc = "awaitJob" /\ EncoderRunning(reqs'[r].job)
      /\ \A r \in Reqs :
           (reqs[r].pc = "awaitJob" /\ manifest[reqs[r].id]) =>
             reqs'[r].pc \in {"awaitJob", "awaitFile"}
    ]_vars

\* A call was answered from the cache while the gate was full.
C4_Witness ==
  /\ gateFull(runningHls)
  /\ \E k \in Jobs : EncoderRunning(k)
  /\ \E j \in Jobs : jobs[j].pc = "returned" /\ Outcome(jobs[j]) = "ready"
  /\ \E r \in Reqs : reqs[r].pc = "awaitFile"

\* C5: an ensureHls(id) call that finds no job, no manifest and no free slot
\* answers busy: the request gets 202, and after the call hlsJobs has no entry
\* for id, runningHls is unchanged and nothing was spawned.
C5_BusyFrame ==
  [][ \A r \in Reqs :
        (/\ ReqArrives(r)
         /\ hlsJobs[reqs'[r].id] = 0
         /\ ~manifest[reqs'[r].id]
         /\ runningHls >= MAX_HLS) =>
          /\ reqs'[r].pc = "done" /\ reqs'[r].resp = 202
          /\ hlsJobs' = hlsJobs
          /\ runningHls' = runningHls
          /\ NoNewProcess
    ]_vars

C5_Witness ==
  \E r \in Reqs, j \in Jobs :
    /\ reqs[r].pc = "done" /\ reqs[r].resp = 202
    /\ jobs[j].pc = "returned" /\ Outcome(jobs[j]) = "busy" /\ jobs[j].id = reqs[r].id
    /\ hlsJobs[reqs[r].id] = 0
    /\ runningHls = MAX_HLS

\* C6: a job is resolved ready, and a request goes on to serve the manifest,
\* only when the manifest file exists.
C6_ReadyOnlyWithManifest ==
  /\ \A j \in Jobs : "ready" \in Range(jobs[j].calls) => manifest[jobs[j].id]
  /\ \A r \in Reqs : reqs[r].pc = "awaitFile" \/ reqs[r].resp = 200 => manifest[reqs[r].id]

\* The poll released a job whose encoder still runs, and its request was served.
C6_Witness ==
  \E j \in Jobs, r \in Reqs :
    /\ Outcome(jobs[j]) = "ready" /\ jobs[j].released /\ EncoderRunning(j)
    /\ reqs[r].id = jobs[j].id /\ reqs[r].resp = 200

\* C7: for a job that reported ready no handler calls reject afterwards, and
\* no request of that id that was told ready gets a failure.
C7_ReadyNotRevoked ==
  \A j \in Jobs : Outcome(jobs[j]) = "ready" => "rejected" \notin Range(jobs[j].calls)

\* A released job whose encoder later exited with a failure code.
C7_Witness ==
  \E j \in Jobs, r \in Reqs :
    /\ Outcome(jobs[j]) = "ready" /\ jobs[j].released
    /\ jobs[j].proc = "closed" /\ jobs[j].exit = <<1>>
    /\ reqs[r].id = jobs[j].id /\ reqs[r].resp = 200

\* C8 (as claimed): a manifest request whose job failed is answered (with the
\* server error), never left without a response.
C8_FailedWaiterAnswered ==
  \A r \in Reqs :
    (/\ reqs[r].job # 0
     /\ Outcome(jobs[reqs[r].job]) = "rejected"
     /\ jobs[reqs[r].job].proc \in {"errored", "closed"}) =>
      reqs[r].pc = "done" /\ reqs[r].resp = 500

\* C9 (as claimed): 0 <= runningThumb <= MAX_THUMB in every reachable state.
C9_RunningThumbInRange == 0 <= runningThumb /\ runningThumb <= MAX_THUMB

\* A thumbnail request arrives in this step and takes record t.
TReqArrives(t) == treqs[t].pc = "idle" /\ treqs'[t].pc # "idle"

SegmentAnswered == segRes' # segRes

C11_SegmentFrame ==
  [][SegmentAnswered =>
       /\ hlsJobs' = hlsJobs /\ runningHls' = runningHls /\ jobs' = jobs
       /\ LET id == segRes'.id
              name == segRes'.name
          IN IF endsWith(name, TsSuffix) /\ name \in SegFiles /\ segs[id][name] > 0
             THEN segRes'.status = 200 /\ segRes'.body = segs[id][name]
             ELSE segRes'.status = 404 /\ segRes'.body = 0]_vars

C11_Witness ==
  /\ segRes.status = 200
  /\ segRes.body = SegLen
  /\ \E j \in Jobs : jobs[j].proc = "running" /\ jobs[j].id = segRes.id

\* C12: a decoded relative path that resolves to a location which is neither the
\* library root nor below it is rejected: safeAbsFromRel and absFromId return
\* null for it.
underRoot(abs) == abs = VIDEO_ROOT \/ startsWith(abs, VIDEO_ROOT \o <<"/">>)

C12_OutsideRejected ==
  ret # <<>> /\ arg.fn \in {"safeAbsFromRel", "absFromId"} =>
    (~underRoot(pathResolve(VIDEO_ROOT, replaceAll(arg.rel, "\\", "/"))) => ret[1] = Null)

\* C13 as stated: a query that is a substring of exactly one asset's name returns
\* exactly that asset; the empty query returns the listing cut to the cap.
Searched == ret # <<>> /\ arg.fn = "search"

NameHits(list, q) == {i \in 1..Len(list) : includes(list[i].name, q)}

C13_UniqueNameHit ==
  Searched =>
    /\ \A i \in 1..Len(arg.list) :
         arg.q # <<>> /\ NameHits(arg.list, arg.q) = {i} => ret[1] = <<arg.list[i]>>
    /\ arg.q = <<>> => ret[1] = slice0(arg.list, ResultCap)

\* C13 amended: the query is trimmed and lower-cased and compared with the
\* lower-cased text "name relPath" of every asset; when that contains the query
\* for exactly one asset, exactly that asset is returned; a query that is empty
\* after trimming returns the listing cut to the cap.
TextHits(list, q) ==
  {i \in 1..Len(list) :
     includes(toLowerCase(list[i].name \o <<" ">> \o list[i].relPath), toLowerCase(trim(q)))}

C13_UniqueTextHit ==
  Searched =>
    /\ \A i \in 1..Len(arg.list) :
         trim(arg.q) # <<>> /\ TextHits(arg.list, arg.q) = {i} => ret[1] = <<arg.list[i]>>
    /\ trim(arg.q) = <<>> => ret[1] = slice0(arg.list, ResultCap)

\* A query with capitals and padding that finds its one asset through the
\* directory name, in a catalog longer than the cap.
C13_Witness ==
  /\ Searched
  /\ Len(arg.list) > ResultCap
  /\ arg.q # toLowerCase(trim(arg.q))
  /\ \E i \in 1..Len(arg.list) :
       /\ TextHits(arg.list, arg.q) = {i}
       /\ NameHits(arg.list, arg.q) = {}
       /\ ret[1] = <<arg.list[i]>>

\* C14: a job whose encoder has exited is settled (Success when the exit code
\* is zero or the manifest exists, Failure otherwise), has no entry in hlsJobs
\* and has no waiter left.
C14_ExitedJobSettled ==
  \A j \in Jobs :
    jobs[j].proc = "closed" =>
      /\ Outcome(jobs[j]) # "pending"
      /\ hlsJobs[jobs[j].id] # j
      /\ \A r \in Reqs : ~(reqs[r].pc = "awaitJob" /\ reqs[r].job = j)
      /\ jobs[j].exit = <<0>> => Outcome(jobs[j]) = "ready"

\* C15: every acquired encode slot is given back on every exit path of its job:
\* runningHls counts no more slots than there are jobs still probing or holding
\* an encoder that has not exited.
C15_NoSlotLeak == runningHls <= Cardinality({j \in Jobs : Active(j)})

LaunchFailed(j) ==
  \/ jobs[j].pc = "caught"
  \/ jobs[j].proc = "errored"
  \/ jobs[j].proc = "closed" /\ jobs[j].exit = <<LaunchFailCode>>

FailedExit(j) ==
  jobs[j].proc = "closed" /\ jobs[j].exit # <<0>> /\ ~jobs[j].released

C17_FailureAndFreshStart ==
  \A j \in Jobs :
    /\ Outcome(jobs[j]) = "rejected" <=> (LaunchFailed(j) \/ FailedExit(j))
    /\ Outcome(jobs[j]) = "rejected" =>
         /\ hlsJobs[jobs[j].id] # j
         /\ \A r \in Reqs : ~(reqs[r].pc = "awaitJob" /\ reqs[r].job = j)
         /\ (\A k \in Jobs : ~Active(k)) => ~gateFull(runningHls)

\* C18: a failing codec probe never makes the job fail: no job is rejected
\* because the launch of a probe failed.
C18_ProbeFailureNeverFailsJob ==
  \A j \in Jobs : ~(jobs[j].pc = "caughtProbe" /\ Outcome(jobs[j]) = "rejected")

\* C19: for a finite duration above 30 s the capture time is floor(duration / 10)
\* seconds written as hh:mm:ss with two digits (at least) per field; otherwise it
\* is 00:00:03; for 1200 s it is 00:02:00.
digitValue(c) == CHOOSE d \in 0..9 : Digit(d) = c

RECURSIVE numberOf(_)
numberOf(s) ==
  IF s = <<>> THEN 0 ELSE numberOf(SubSeq(s, 1, Len(s) - 1)) * 10 + digitValue(s[Len(s)])

\* The seconds an hh:mm:ss text stands for; -1 when it is not of that form.
secondsOfHMS(s) ==
  LET n == Len(s)
  IN IF n < 8 \/ s[n - 2] # ":" \/ s[n - 5] # ":"
        \/ \E i \in (1..n) \ {n - 2, n - 5} : \A d \in 0..9 : Digit(d) # s[i]
     THEN -1
     ELSE LET hh == numberOf(SubSeq(s, 1, n - 6))
              mm == numberOf(SubSeq(s, n - 4, n - 3))
              ss == numberOf(SubSeq(s, n - 1, n))
          IN IF mm > 59 \/ ss > 59 THEN -1 ELSE hh * 3600 + mm * 60 + ss

SeekComputed == ret # <<>> /\ arg.fn = "seek"

C19_CaptureTime ==
  SeekComputed =>
    /\ arg.dur.kind = "num" /\ arg.dur.tenths > 300 =>
         \E t \in 0..(arg.dur.tenths \div 10) :
           /\ t * 100 <= arg.dur.tenths /\ arg.dur.tenths < (t + 1) * 100
           /\ secondsOfHMS(ret[1]) = t
    /\ ~(arg.dur.kind = "num" /\ arg.dur.tenths > 300) =>
         ret[1] = <<"0", "0", ":", "0", "0", ":", "0", "3">>
    /\ arg.dur = [kind |-> "num", tenths |-> 12000] =>
         ret[1] = <<"0", "0", ":", "0", "2", ":", "0", "0">>

C19_Witness ==
  /\ SeekComputed
  /\ arg.dur = [kind |-> "num", tenths |-> 12000]
  /\ ret[1] = <<"0", "0", ":", "0", "2", ":", "0", "0">>

\* C20: a thumbnail request that took a slot and spawned the extraction sends
\* one response and gives its slot back once: no request has sent twice, and
\* runningThumb is not below the number of requests that still hold a slot.
HoldsThumbSlot(t) == treqs[t].pc \in {"probing", "running", "failed"}

C20_OneResponseOneRelease ==
  /\ \A t \in TReqs : treqs[t].sent <= 1
  /\ runningThumb >= Cardinality({t \in TReqs : HoldsThumbSlot(t)})

====
